---- MODULE Spec2Model ----
(***************************************************************************)
(* Model of streamlit_app.py: one run of the Streamlit script, top to      *)
(* bottom.  The script fetches an hourly forecast per weather model,       *)
(* converts it to snowfall, aggregates the models into an ensemble, rolls  *)
(* the ensemble up into local-day totals, and then (optionally) does the   *)
(* same rollup for a historical series.                                    *)
(*                                                                         *)
(* Python floats are modelled as exact rationals plus NaN; floating-point  *)
(* rounding is not modelled.  Timestamps are whole hours counted from      *)
(* 1970-01-01T00:00Z; the resort's zone is a fixed UTC offset (no DST      *)
(* change inside the window).                                              *)
(***************************************************************************)
EXTENDS Integers, Sequences, FiniteSets, TLC

(***************************************************************************)
(* Floats                                                                  *)
(***************************************************************************)
RECURSIVE Gcd(_, _)
Gcd(a, b) == IF b = 0 THEN a ELSE Gcd(b, a % b)

Abs(x) == IF x < 0 THEN -x ELSE x

\* float('nan'): JSON null in a numeric column
NaN == [nan |-> TRUE, n |-> 0, d |-> 1]

\* the float n/d, in lowest terms
Rat(n, d) ==
    LET g == Gcd(Abs(n), Abs(d))
        s == IF d < 0 THEN -1 ELSE 1
    IN  [nan |-> FALSE, n |-> (s * n) \div g, d |-> (s * d) \div g]

Zero == Rat(0, 1)

FAdd(a, b) == IF a.nan \/ b.nan THEN NaN ELSE Rat(a.n * b.d + b.n * a.d, a.d * b.d)
FNeg(a) == IF a.nan THEN NaN ELSE Rat(-a.n, a.d)
FSub(a, b) == FAdd(a, FNeg(b))
FMul(a, b) == IF a.nan \/ b.nan THEN NaN ELSE Rat(a.n * b.n, a.d * b.d)
\* a / k for an integer k > 0
FDivInt(a, k) == IF a.nan THEN NaN ELSE Rat(a.n, a.d * k)
\* a <= b; every comparison with NaN is False
FLe(a, b) == ~a.nan /\ ~b.nan /\ a.n * b.d <= b.n * a.d

\* sum of a sequence of floats, left to right
RECURSIVE FSum(_)
FSum(s) == IF s = <<>> THEN Zero ELSE FAdd(Head(s), FSum(Tail(s)))

\* the elements of s that are not NaN (pandas skipna)
RECURSIVE DropNaN(_)
DropNaN(s) ==
    IF s = <<>> THEN <<>>
    ELSE IF Head(s).nan THEN DropNaN(Tail(s))
    ELSE <<Head(s)>> \o DropNaN(Tail(s))

\* a set of integers as an ascending sequence
RECURSIVE SortedSeq(_)
SortedSeq(S) ==
    IF S = {} THEN <<>>
    ELSE LET m == CHOOSE x \in S : \A y \in S : x <= y
         IN  <<m>> \o SortedSeq(S \ {m})

(***************************************************************************)
(* Helpers (streamlit_app.py 136-143)                                      *)
(***************************************************************************)
feet_to_m(ft) == FMul(ft, Rat(3048, 10000))

mm_to_inches(mm) == FMul(mm, Rat(10, 254))

slr_wrong_boundary(tc) ==
    IF ~tc.nan /\ tc.n < -12 * tc.d THEN Rat(22, 1)
    ELSE IF ~tc.nan /\ tc.n < -6 * tc.d THEN Rat(18, 1)
    ELSE IF ~tc.nan /\ tc.n < -2 * tc.d THEN Rat(14, 1)
    ELSE IF ~tc.nan /\ tc.n < 0 THEN Rat(10, 1)
    ELSE Rat(7, 1)

slr_from_temp(tc) ==
    IF FLe(tc, Rat(-12, 1)) THEN Rat(22, 1)
    ELSE IF FLe(tc, Rat(-6, 1)) THEN Rat(18, 1)
    ELSE IF FLe(tc, Rat(-2, 1)) THEN Rat(14, 1)
    ELSE IF FLe(tc, Rat(0, 1)) THEN Rat(10, 1)
    ELSE Rat(7, 1)

(***************************************************************************)
(* Configuration and inputs                                                *)
(***************************************************************************)
\* RESORTS["Tamarack (ID)"], the selectbox default
resort ==
    [base_ft |-> Rat(4900, 1), mid_ft |-> Rat(6600, 1), summit_ft |-> Rat(7700, 1),
     tz |-> "America/Boise", webcam_urls |-> <<"TuXoTi6Y5Uc", "3fJt-3O3bec">>]

\* UTC offset of America/Boise (standard time), in hours
TzOffsetHours == -7

DEFAULT_MODELS == <<"gfs_seamless", "icon_seamless">>

ElevChoices == {"Base", "Mid", "Summit"}

\* st.slider("Days ahead (forecast)", 1, 16, 7): the value used here
days == 1
\* st.number_input("History days to fetch", 1, 30, 7): the value used here
history_days == 1

\* datetime.now(tz) truncated to the hour: 23:00 local time on local day 0
NOW_LOCAL == 30
FORECAST_END_LOCAL == NOW_LOCAL + 24 * days
HIST_START_LOCAL == NOW_LOCAL - 24 * history_days
HIST_END_LOCAL == NOW_LOCAL - 1

\* number of distinct hours a forecast / an archive response may carry
NumHours == 3
NumHistHours == 3

\* The hours a forecast response may report: the first hour of the window
\* (23:00), the next one (00:00 of the next local day), one hour before the
\* window, one hour after it, then further hours inside the window.
ForecastHourAt(i) ==
    CASE i = 1 -> NOW_LOCAL
      [] i = 2 -> NOW_LOCAL + 1
      [] i = 3 -> NOW_LOCAL - 1
      [] i = 4 -> FORECAST_END_LOCAL + 1
      [] OTHER -> NOW_LOCAL + i - 3

\* The hours an archive response may report: the last hour of the window
\* (22:00 of local day 0), the first one (23:00 of local day -1), one hour
\* after the window, one hour before it, then further hours inside it.
HistHourAt(i) ==
    CASE i = 1 -> HIST_END_LOCAL
      [] i = 2 -> HIST_START_LOCAL
      [] i = 3 -> HIST_END_LOCAL + 1
      [] i = 4 -> HIST_START_LOCAL - 1
      [] OTHER -> HIST_START_LOCAL + i - 4

\* One hourly sample of a response: temperature_2m (deg C), precipitation (mm).
\* A null of the provider (an hour past the model's horizon) is NaN in both.
SampleA == [t_C |-> Rat(-1, 1), qpf_mm |-> Rat(254, 100)]
SampleB == [t_C |-> Rat(-1, 2), qpf_mm |-> Rat(762, 100)]
SampleNull == [t_C |-> NaN, qpf_mm |-> NaN]

\* What a response may hold at hour h.  The samples of an hour outside
\* [lo, hi] are dropped by the fetch, so one value stands for all of them.
SamplesAt(h, lo, hi) ==
    IF lo <= h /\ h <= hi THEN {SampleA, SampleB, SampleNull} ELSE {SampleA}

\* "elevation" of a response: absent (<<>>) or the grid cell's elevation in m
ElevationChoices == {<<>>, <<Rat(2012, 1)>>}

\* The JSON bodies a request may get back: any subset of the hours, each with a
\* sample; times ascending.
Responses(hours, lo, hi) ==
    UNION {
        {[time |-> SortedSeq(S), sample |-> f, elevation |-> e] :
            f \in {g \in [S -> {SampleA, SampleB, SampleNull}] :
                     \A h \in S : g[h] \in SamplesAt(h, lo, hi)},
            e \in ElevationChoices}
        : S \in SUBSET hours}

ForecastResponses ==
    Responses({ForecastHourAt(i) : i \in 1..NumHours}, NOW_LOCAL, FORECAST_END_LOCAL)

HistResponses ==
    Responses({HistHourAt(i) : i \in 1..NumHistHours}, HIST_START_LOCAL, HIST_END_LOCAL)

(***************************************************************************)
(* Fetching (streamlit_app.py 150-185)                                     *)
(***************************************************************************)
\* df[(df["time_local"] >= start_dt) & (df["time_local"] <= end_dt)]
RECURSIVE FilterWindow(_, _, _)
FilterWindow(rows, start_dt, end_dt) ==
    IF rows = <<>> THEN <<>>
    ELSE IF Head(rows).time_local >= start_dt /\ Head(rows).time_local <= end_dt
         THEN <<Head(rows)>> \o FilterWindow(Tail(rows), start_dt, end_dt)
         ELSE FilterWindow(Tail(rows), start_dt, end_dt)

\* the body of fetch_forecast / fetch_historical after _safe_get returned j:
\* the frame (time_local, t_C, qpf_mm) cut to the window, and the elevation
FetchFrame(j, start_dt, end_dt, base_ft) ==
    LET df == [i \in 1..Len(j.time) |->
                 [time_local |-> j.time[i],
                  t_C |-> j.sample[j.time[i]].t_C,
                  qpf_mm |-> j.sample[j.time[i]].qpf_mm]]
    IN  [df |-> FilterWindow(df, start_dt, end_dt),
         elev |-> IF j.elevation = <<>> THEN feet_to_m(base_ft) ELSE j.elevation[1]]

fetch_forecast(j) == FetchFrame(j, NOW_LOCAL, FORECAST_END_LOCAL, resort.base_ft)

fetch_historical(j) == FetchFrame(j, HIST_START_LOCAL, HIST_END_LOCAL, resort.base_ft)

ResortElevFt(choice) ==
    IF choice = "Base" THEN resort.base_ft
    ELSE IF choice = "Mid" THEN resort.mid_ft
    ELSE resort.summit_ft

\* lapse-rate adjustment and snow conversion of one frame (lines 226-231, 306-311)
SnowFrame(fetched, elev_ft) ==
    LET lapse == Rat(65, 10000)
        temp_adj == FNeg(FMul(FSub(feet_to_m(elev_ft), fetched.elev), lapse))
        Row(r) ==
            LET t_C_adj == FAdd(r.t_C, temp_adj)
                qpf_in == mm_to_inches(r.qpf_mm)
                slr == slr_from_temp(t_C_adj)
            IN  [time_local |-> r.time_local, t_C_adj |-> t_C_adj, qpf_in |-> qpf_in,
                 slr |-> slr, snow_in |-> FMul(qpf_in, slr)]
    IN  [i \in 1..Len(fetched.df) |-> Row(fetched.df[i])]

(***************************************************************************)
(* Ensemble aggregation (streamlit_app.py 242-246)                         *)
(***************************************************************************)
\* pd.concat(model_frames): the rows of all frames, each with its model
RECURSIVE Concat(_)
Concat(frames) ==
    IF frames = <<>> THEN <<>>
    ELSE LET f == Head(frames)
         IN  [i \in 1..Len(f.rows) |->
                [time_local |-> f.rows[i].time_local, snow_in |-> f.rows[i].snow_in,
                 model |-> f.model]]
             \o Concat(Tail(frames))

\* the snow_in values of the rows of one (time_local, model) group
RECURSIVE GroupValues(_, _, _)
GroupValues(rows, ts, m) ==
    IF rows = <<>> THEN <<>>
    ELSE IF Head(rows).time_local = ts /\ Head(rows).model = m
         THEN <<Head(rows).snow_in>> \o GroupValues(Tail(rows), ts, m)
         ELSE GroupValues(Tail(rows), ts, m)

\* a mean that counts a missing value as zero
MeanZeroFill(vals) ==
    FDivInt(FSum([i \in 1..Len(vals) |-> IF vals[i].nan THEN Zero ELSE vals[i]]),
            Len(vals))

\* Series.mean(): NaN skipped; NaN when nothing is left
MeanSkipNaN(vals) ==
    LET v == DropNaN(vals)
    IN  IF v = <<>> THEN NaN ELSE FDivInt(FSum(v), Len(v))

\* the models of s that are in present, in the order of s (sorted columns)
RECURSIVE SelectModels(_, _)
SelectModels(s, present) ==
    IF s = <<>> THEN <<>>
    ELSE IF Head(s) \in present THEN <<Head(s)>> \o SelectModels(Tail(s), present)
    ELSE SelectModels(Tail(s), present)

\* the model column of a frame: m or "auto"
ModelNames == DEFAULT_MODELS

\* ensemble_df.pivot_table(index="time_local", columns="model", values="snow_in"):
\* the mean per (time_local, model) group, groups whose mean is NaN dropped
\* (dropna), then one row per remaining time_local in ascending order and one
\* column per remaining model; a cell without a group is NaN.
pivot_table(ensemble_df) ==
    LET keys == {<<ensemble_df[i].time_local, ensemble_df[i].model>> :
                    i \in 1..Len(ensemble_df)}
        agged == {k \in keys : ~MeanSkipNaN(GroupValues(ensemble_df, k[1], k[2])).nan}
    IN  [index |-> SortedSeq({k[1] : k \in agged}),
         columns |-> SelectModels(ModelNames, {k[2] : k \in agged}),
         cell |-> [k \in agged |-> MeanSkipNaN(GroupValues(ensemble_df, k[1], k[2]))]]

\* the cells of one pivot row, NaN where the model has no value at ts
PivotRow(pivot, ts) ==
    [c \in 1..Len(pivot.columns) |->
        IF <<ts, pivot.columns[c]>> \in DOMAIN pivot.cell
        THEN pivot.cell[<<ts, pivot.columns[c]>>] ELSE NaN]

\* a standard deviation is kept as its square (radicand): sqrt is not rational
StdNaN == [nan |-> TRUE, radicand |-> Zero]
StdOf(variance) == [nan |-> FALSE, radicand |-> variance]

\* DataFrame.std(axis=1): NaN skipped, ddof=1, NaN for fewer than 2 values
StdSkipNaN(vals) ==
    LET v == DropNaN(vals)
        n == Len(v)
        mean == FDivInt(FSum(v), n)
        dev2 == [i \in 1..n |-> FMul(FSub(v[i], mean), FSub(v[i], mean))]
    IN  IF n < 2 THEN StdNaN ELSE StdOf(FDivInt(FSum(dev2), n - 1))

\* the standard deviation left as pandas computed it
fillna_missing(s) == s

\* .fillna(0.0)
fillna(s) == IF s.nan THEN StdOf(Zero) ELSE s

\* lines 242-246: out, one row per pivot row
EnsembleAggregate(frames) ==
    LET pivot == pivot_table(Concat(frames))
    IN  [i \in 1..Len(pivot.index) |->
            [time_local |-> pivot.index[i],
             snow_mean |-> MeanSkipNaN(PivotRow(pivot, pivot.index[i])),
             snow_std |-> fillna(StdSkipNaN(PivotRow(pivot, pivot.index[i])))]]

(***************************************************************************)
(* Daily rollup (streamlit_app.py 267-274, 313-318)                        *)
(***************************************************************************)
\* the UTC date of a timestamp
LocalDateUtc(ts) == ts \div 24

\* .date of a timestamp in the resort's zone
LocalDate(ts) == (ts + TzOffsetHours) \div 24

\* the values of the rows whose local date is d
RECURSIVE ValuesOn(_, _)
ValuesOn(rows, d) ==
    IF rows = <<>> THEN <<>>
    ELSE IF LocalDate(Head(rows).time_local) = d
         THEN <<Head(rows).value>> \o ValuesOn(Tail(rows), d)
         ELSE ValuesOn(Tail(rows), d)

\* groupby(date).agg(sum): one row per date, ascending; sum skips NaN
GroupByDateSum(rows) ==
    LET dates == SortedSeq({LocalDate(rows[i].time_local) : i \in 1..Len(rows)})
    IN  [k \in 1..Len(dates) |->
            [Date |-> dates[k], Snow |-> FSum(DropNaN(ValuesOn(rows, dates[k])))]]

\* lines 267-274
DailyTotals(o) ==
    GroupByDateSum([i \in 1..Len(o) |->
        [time_local |-> o[i].time_local, value |-> o[i].snow_mean]])

\* lines 313-318
HistDaily(df_hist) ==
    GroupByDateSum([i \in 1..Len(df_hist) |->
        [time_local |-> df_hist[i].time_local, value |-> df_hist[i].snow_in]])

(***************************************************************************)
(* The script run                                                          *)
(***************************************************************************)
VARIABLES
    pc,            \* where the script is
    elev_choice,   \* st.radio("Choose elevation")
    show_history,  \* st.checkbox("Show previous days snow totals")
    m_idx,         \* position of the per-model loop in DEFAULT_MODELS
    model_frames,  \* the frames appended so far
    requests,      \* the HTTP requests issued so far
    messages,      \* st.warning / st.error calls so far
    rendered,      \* charts and tables rendered so far
    out,           \* the ensemble frame
    daily_totals,  \* the forecast daily totals
    hist,          \* the historical frame and its daily totals
    probe          \* temperatures handed to slr_from_temp, and the results

vars == <<pc, elev_choice, show_history, m_idx, model_frames, requests, messages,
          rendered, out, daily_totals, hist, probe>>

NoProbe == [t1 |-> NaN, t2 |-> NaN, r1 |-> NaN, r2 |-> NaN]
NoHist == [fetched |-> FALSE, df |-> <<>>, daily |-> <<>>]

Init ==
    /\ pc = "forecast_loop"
    /\ elev_choice \in ElevChoices
    /\ show_history \in BOOLEAN
    /\ m_idx = 1
    /\ model_frames = <<>>
    /\ requests = <<>>
    /\ messages = <<>>
    /\ rendered = <<>>
    /\ out = <<>>
    /\ daily_totals = <<>>
    /\ hist = NoHist
    /\ probe = NoProbe

\* a loop whose first failure ends it
ForecastLoopStepAbort ==
    /\ pc = "forecast_loop"
    /\ m_idx <= Len(DEFAULT_MODELS)
    /\ LET m == DEFAULT_MODELS[m_idx] IN
        /\ requests' = Append(requests, [api |-> "forecast", model |-> m])
        /\ \/ /\ messages' = Append(messages,
                    [level |-> "warning", text |-> "Forecast model failed", model |-> m])
              /\ m_idx' = Len(DEFAULT_MODELS) + 1
              /\ UNCHANGED model_frames
           \/ \E j \in ForecastResponses :
                /\ model_frames' = Append(model_frames,
                      [model |-> m,
                       rows |-> SnowFrame(fetch_forecast(j), ResortElevFt(elev_choice))])
                /\ m_idx' = m_idx + 1
                /\ UNCHANGED messages
    /\ UNCHANGED <<pc, elev_choice, show_history, rendered, out, daily_totals, hist, probe>>

\* lines 220-235, one iteration: the fetch raises, or returns a body j; an
\* exception anywhere in the try block ends in the warning of line 235
ForecastLoopStep ==
    /\ pc = "forecast_loop"
    /\ m_idx <= Len(DEFAULT_MODELS)
    /\ LET m == DEFAULT_MODELS[m_idx] IN
        /\ requests' = Append(requests, [api |-> "forecast", model |-> m])
        /\ \/ /\ messages' = Append(messages,
                    [level |-> "warning", text |-> "Forecast model failed", model |-> m])
              /\ UNCHANGED model_frames
           \/ \E j \in ForecastResponses :
                /\ model_frames' = Append(model_frames,
                      [model |-> m,
                       rows |-> SnowFrame(fetch_forecast(j), ResortElevFt(elev_choice))])
                /\ UNCHANGED messages
    /\ m_idx' = m_idx + 1
    /\ UNCHANGED <<pc, elev_choice, show_history, rendered, out, daily_totals, hist, probe>>

\* st.error without st.stop: the script goes on to aggregate
CheckFramesNoStop ==
    /\ pc = "forecast_loop"
    /\ m_idx > Len(DEFAULT_MODELS)
    /\ IF model_frames = <<>>
       THEN messages' = Append(messages,
                   [level |-> "error", text |-> "No model data available", model |-> "-"])
       ELSE UNCHANGED messages
    /\ pc' = "aggregate"
    /\ UNCHANGED <<elev_choice, show_history, m_idx, model_frames, requests, rendered,
                   out, daily_totals, hist, probe>>

\* the forecast section skipped on total failure, the history section still run
CheckFramesHistoryAnyway ==
    /\ pc = "forecast_loop"
    /\ m_idx > Len(DEFAULT_MODELS)
    /\ IF model_frames = <<>>
       THEN /\ messages' = Append(messages,
                   [level |-> "error", text |-> "No model data available", model |-> "-"])
            /\ pc' = "history"
       ELSE /\ pc' = "aggregate"
            /\ UNCHANGED messages
    /\ UNCHANGED <<elev_choice, show_history, m_idx, model_frames, requests, rendered,
                   out, daily_totals, hist, probe>>

\* lines 237-239: the loop is over; st.error and st.stop when no frame was appended
CheckFrames ==
    /\ pc = "forecast_loop"
    /\ m_idx > Len(DEFAULT_MODELS)
    /\ IF model_frames = <<>>
       THEN /\ messages' = Append(messages,
                   [level |-> "error", text |-> "No model data available", model |-> "-"])
            /\ pc' = "stopped"
       ELSE /\ pc' = "aggregate"
            /\ UNCHANGED messages
    /\ UNCHANGED <<elev_choice, show_history, m_idx, model_frames, requests, rendered,
                   out, daily_totals, hist, probe>>

\* lines 242-246
Aggregate ==
    /\ pc = "aggregate"
    /\ out' = EnsembleAggregate(model_frames)
    /\ pc' = "plot"
    /\ UNCHANGED <<elev_choice, show_history, m_idx, model_frames, requests, messages,
                   rendered, daily_totals, hist, probe>>

\* lines 249-263: the hourly forecast chart
PlotForecast ==
    /\ pc = "plot"
    /\ rendered' = Append(rendered, "forecast_chart")
    /\ pc' = "daily"
    /\ UNCHANGED <<elev_choice, show_history, m_idx, model_frames, requests, messages,
                   out, daily_totals, hist, probe>>

\* lines 266-299: daily totals, their table and their bar chart
DailyForecast ==
    /\ pc = "daily"
    /\ daily_totals' = DailyTotals(out)
    /\ rendered' = rendered \o <<"daily_table", "daily_chart">>
    /\ pc' = "history"
    /\ UNCHANGED <<elev_choice, show_history, m_idx, model_frames, requests, messages,
                   out, hist, probe>>

\* a history section that reuses the forecast's daily_totals name
HistoryResultClobber(j) ==
    LET df_hist == SnowFrame(fetch_historical(j), ResortElevFt(elev_choice))
    IN  [hist |-> [fetched |-> TRUE, df |-> df_hist, daily |-> HistDaily(df_hist)],
         rendered |-> rendered \o <<"hist_table", "hist_chart">>,
         out |-> out,
         daily_totals |-> HistDaily(df_hist)]

\* lines 304-342: the try block ran to its end on the body j
HistoryResult(j) ==
    LET df_hist == SnowFrame(fetch_historical(j), ResortElevFt(elev_choice))
    IN  [hist |-> [fetched |-> TRUE, df |-> df_hist, daily |-> HistDaily(df_hist)],
         rendered |-> rendered \o <<"hist_table", "hist_chart">>,
         out |-> out,
         daily_totals |-> daily_totals]

\* lines 302-345: skipped, failed with the warning of line 345, or done
History ==
    /\ pc = "history"
    /\ IF ~show_history
       THEN UNCHANGED <<requests, messages, rendered, out, daily_totals, hist>>
       ELSE /\ requests' = Append(requests, [api |-> "archive", model |-> "era5"])
            /\ \/ /\ messages' = Append(messages,
                        [level |-> "warning", text |-> "Historical fetch failed",
                         model |-> "era5"])
                  /\ UNCHANGED <<rendered, out, daily_totals, hist>>
               \/ \E j \in HistResponses :
                    /\ hist' = HistoryResult(j).hist
                    /\ rendered' = HistoryResult(j).rendered
                    /\ out' = HistoryResult(j).out
                    /\ daily_totals' = HistoryResult(j).daily_totals
                    /\ UNCHANGED messages
    /\ pc' = "cams"
    /\ UNCHANGED <<elev_choice, show_history, m_idx, model_frames, probe>>

\* lines 348-357: the resort has webcam_urls
LiveCams ==
    /\ pc = "cams"
    /\ rendered' = Append(rendered, "live_cams")
    /\ pc' = "done"
    /\ UNCHANGED <<elev_choice, show_history, m_idx, model_frames, requests, messages,
                   out, daily_totals, hist, probe>>

Next ==
    \/ ForecastLoopStep
    \/ CheckFrames
    \/ Aggregate
    \/ PlotForecast
    \/ DailyForecast
    \/ History
    \/ LiveCams

Spec == Init /\ [][Next]_vars

(***************************************************************************)
(* slr_from_temp on its own: a pair of temperatures is drawn and the       *)
(* function applied to both                                                *)
(***************************************************************************)
\* temperatures within ProbeSteps thousandths of every whole degree from -14 to 2
ProbeSteps == 1

ProbeTemps ==
    {Rat(1000 * c + e, 1000) : c \in -14..2, e \in -ProbeSteps..ProbeSteps} \cup {NaN}

InitSlr ==
    /\ pc = "slr_probe"
    /\ \E t1 \in ProbeTemps, t2 \in ProbeTemps :
          probe = [t1 |-> t1, t2 |-> t2, r1 |-> NaN, r2 |-> NaN]
    /\ elev_choice = "Mid"
    /\ show_history = FALSE
    /\ m_idx = 1
    /\ model_frames = <<>>
    /\ requests = <<>>
    /\ messages = <<>>
    /\ rendered = <<>>
    /\ out = <<>>
    /\ daily_totals = <<>>
    /\ hist = NoHist

ProbeSlr ==
    /\ pc = "slr_probe"
    /\ probe' = [probe EXCEPT !.r1 = slr_from_temp(probe.t1),
                              !.r2 = slr_from_temp(probe.t2)]
    /\ pc' = "slr_done"
    /\ UNCHANGED <<elev_choice, show_history, m_idx, model_frames, requests, messages,
                   rendered, out, daily_totals, hist>>

NextSlr == ProbeSlr

SpecSlr == InitSlr /\ [][NextSlr]_vars

(***************************************************************************)
(* Properties                                                              *)
(***************************************************************************)
NumModels == Len(DEFAULT_MODELS)

Aggregated == pc \in {"plot", "daily", "history", "cams", "done"}
RolledUp == pc \in {"history", "cams", "done"}

\* the warnings of the per-model loop that name model m
WarningsFor(m) ==
    {i \in DOMAIN messages :
        messages[i] = [level |-> "warning", text |-> "Forecast model failed", model |-> m]}

FramesFor(m) == {i \in DOMAIN model_frames : model_frames[i].model = m}

ArchiveRequests == {i \in DOMAIN requests : requests[i].api = "archive"}

HistWarnings ==
    {i \in DOMAIN messages :
        messages[i].level = "warning" /\ messages[i].text = "Historical fetch failed"}

\* the hours at which frame f reports a snowfall value
Reported(f) ==
    {f.rows[k].time_local : k \in {i \in DOMAIN f.rows : ~f.rows[i].snow_in.nan}}

UnionTimes == UNION {Reported(model_frames[i]) : i \in DOMAIN model_frames}

\* the snow_in values of the models that report at ts, one per model
RECURSIVE ValuesAt(_, _)
ValuesAt(frames, ts) ==
    IF frames = <<>> THEN <<>>
    ELSE LET f == Head(frames)
             at == {k \in DOMAIN f.rows :
                       f.rows[k].time_local = ts /\ ~f.rows[k].snow_in.nan}
         IN  (IF at = {} THEN <<>> ELSE <<f.rows[CHOOSE k \in at : TRUE].snow_in>>)
             \o ValuesAt(Tail(frames), ts)

\* C1: in the per-model loop every selected model is requested, in order,
\* whatever happened to the models before it; a model whose fetch or series
\* construction raised has no frame and exactly one warning naming it; every
\* other model has exactly one frame and no warning, and each value of its
\* series is in the aggregate.
C1_PartialFailure ==
    /\ m_idx \in 1..(NumModels + 1)
    /\ (pc # "forecast_loop" => m_idx = NumModels + 1)
    /\ \A i \in 1..NumModels :
          LET m == DEFAULT_MODELS[i] IN
          IF i < m_idx
          THEN /\ i <= Len(requests)
               /\ requests[i] = [api |-> "forecast", model |-> m]
               /\ Cardinality(FramesFor(m)) + Cardinality(WarningsFor(m)) = 1
          ELSE FramesFor(m) = {} /\ WarningsFor(m) = {}
    /\ (Aggregated =>
          \A t \in UnionTimes : \E i \in DOMAIN out : out[i].time_local = t)

\* the first model failed, the second was still fetched and is in the ensemble
C1_Witness ==
    /\ pc = "done"
    /\ WarningsFor(DEFAULT_MODELS[1]) # {}
    /\ FramesFor(DEFAULT_MODELS[1]) = {}
    /\ FramesFor(DEFAULT_MODELS[2]) # {}
    /\ Len(out) = 2

AllModelsFailed == \A i \in 1..NumModels : WarningsFor(DEFAULT_MODELS[i]) # {}

ForecastWidgets == {"forecast_chart", "daily_table", "daily_chart"}

RenderedSet == {rendered[i] : i \in DOMAIN rendered}

\* C2: once the loop is over, the run is in the terminal "no forecast
\* available" state exactly when every selected model failed; nothing is
\* rendered in that state and no step leaves it; when some model succeeded
\* the run leaves the loop for the aggregation and ends with the forecast
\* chart and the daily table rendered.
C2_State ==
    /\ (pc = "stopped" => AllModelsFailed /\ RenderedSet = {})
    /\ (pc # "forecast_loop" /\ AllModelsFailed => pc = "stopped")
    /\ (pc # "forecast_loop" /\ ~AllModelsFailed =>
          /\ pc # "stopped"
          /\ (pc = "done" => ForecastWidgets \subseteq RenderedSet))

C2_Step ==
    /\ pc # "stopped"
    /\ (pc = "forecast_loop" /\ pc' # "forecast_loop" =>
          pc' = IF AllModelsFailed THEN "stopped" ELSE "aggregate")
    /\ (pc = "aggregate" => pc' = "plot")

\* C2: C2_State holds in every state and every step satisfies C2_Step
C2_TotalFailure == []C2_State /\ [][C2_Step]_vars

C2_Witness ==
    /\ pc = "stopped"
    /\ AllModelsFailed
    /\ Len(requests) = NumModels
    /\ rendered = <<>>

\* C4: the ensemble has exactly one point per hour of the union of the hours
\* at which the models report a value, in ascending order; every point has at
\* least one contributing model and its snow_mean times the number of
\* contributing models is the sum of their snow_in.
C4_UnionAndMean ==
    Aggregated =>
        /\ {out[i].time_local : i \in DOMAIN out} = UnionTimes
        /\ Len(out) = Cardinality(UnionTimes)
        /\ \A i \in DOMAIN out : i < Len(out) => out[i].time_local < out[i + 1].time_local
        /\ \A i \in DOMAIN out :
              LET v == ValuesAt(model_frames, out[i].time_local) IN
              /\ Len(v) >= 1
              /\ ~out[i].snow_mean.nan
              /\ FMul(out[i].snow_mean, Rat(Len(v), 1)) = FSum(v)

\* two models; both report at the first hour, only the second at the next one
C4_Witness ==
    /\ Aggregated
    /\ Len(model_frames) = 2
    /\ Reported(model_frames[1]) = {NOW_LOCAL}
    /\ Reported(model_frames[2]) = {NOW_LOCAL, NOW_LOCAL + 1}
    /\ Len(out) = 2
    /\ out[1].snow_mean # out[2].snow_mean
    /\ out[2].snow_mean = model_frames[2].rows[2].snow_in

\* C5: at every ensemble point snow_std is a number, never NaN; it is 0 when
\* fewer than 2 models contributed, and otherwise its square v is the sample
\* variance: n (n - 1) v = n sum(x^2) - (sum x)^2 over the contributors.
C5_SampleStd ==
    Aggregated =>
        \A i \in DOMAIN out :
            LET v == ValuesAt(model_frames, out[i].time_local)
                n == Len(v)
                sq == [k \in 1..n |-> FMul(v[k], v[k])]
            IN  /\ ~out[i].snow_std.nan
                /\ (n < 2 => out[i].snow_std.radicand = Zero)
                /\ (n >= 2 =>
                      FMul(Rat(n * (n - 1), 1), out[i].snow_std.radicand)
                        = FSub(FMul(Rat(n, 1), FSum(sq)), FMul(FSum(v), FSum(v))))

\* the models report 1.0 and 3.0 at one hour (variance 2), and one alone at another
C5_Witness ==
    /\ Aggregated
    /\ Len(out) = 2
    /\ ValuesAt(model_frames, out[1].time_local) = <<Rat(1, 1), Rat(3, 1)>>
    /\ out[1].snow_mean = Rat(2, 1)
    /\ out[1].snow_std = StdOf(Rat(2, 1))
    /\ Len(ValuesAt(model_frames, out[2].time_local)) = 1
    /\ out[2].snow_std = StdOf(Zero)

\* hour ts falls on local day d of America/Boise (UTC-7)
OnLocalDay(ts, d) == 24 * d <= ts - 7 /\ ts - 7 < 24 * (d + 1)

\* the values, NaN left out, of the rows that fall on local day d
RECURSIVE DayValues(_, _)
DayValues(rows, d) ==
    IF rows = <<>> THEN <<>>
    ELSE (IF OnLocalDay(Head(rows).time_local, d) /\ ~Head(rows).value.nan
          THEN <<Head(rows).value>> ELSE <<>>)
         \o DayValues(Tail(rows), d)

RollupOk(rows, daily) ==
    /\ \A k \in DOMAIN daily : k < Len(daily) => daily[k].Date < daily[k + 1].Date
    /\ \A i \in DOMAIN rows :
          Cardinality({k \in DOMAIN daily :
                          OnLocalDay(rows[i].time_local, daily[k].Date)}) = 1
    /\ \A k \in DOMAIN daily :
          /\ \E i \in DOMAIN rows : OnLocalDay(rows[i].time_local, daily[k].Date)
          /\ daily[k].Snow = FSum(DayValues(rows, daily[k].Date))
    /\ FSum([k \in DOMAIN daily |-> daily[k].Snow])
         = FSum(DropNaN([i \in DOMAIN rows |-> rows[i].value]))

OutRows == [i \in DOMAIN out |-> [time_local |-> out[i].time_local, value |-> out[i].snow_mean]]

HistRows ==
    [i \in DOMAIN hist.df |->
        [time_local |-> hist.df[i].time_local, value |-> hist.df[i].snow_in]]

AllSeriesEmpty == \A i \in DOMAIN model_frames : model_frames[i].rows = <<>>

\* C7: when no model series exists, or every collected series is empty, the
\* aggregation does not complete: the run is in the data-unavailable state
\* and no forecast widget is rendered.
C7_EmptyEnsemble ==
    AllSeriesEmpty =>
        /\ RenderedSet \cap ForecastWidgets = {}
        /\ (pc \notin {"forecast_loop", "aggregate"} => pc = "stopped")

\* C8: a model whose sample sequence is empty is not among the series handed
\* to the aggregator and is reported by a warning naming it.
C8_EmptySeriesExcluded ==
    \A i \in DOMAIN model_frames :
        /\ model_frames[i].rows # <<>>
        /\ WarningsFor(model_frames[i].model) = {}

\* C9: the history section leaves the ensemble, the daily forecast totals and
\* the rendered forecast widgets as they were, whether it is skipped, fails
\* or succeeds; a failure adds one warning of its own and the run goes on;
\* whenever a forecast model succeeded the forecast widgets are rendered
\* before the history section starts.
C9_State ==
    RolledUp => SubSeq(rendered, 1, 3) = <<"forecast_chart", "daily_table", "daily_chart">>

C9_Step ==
    pc = "history" =>
        /\ pc' = "cams"
        /\ out' = out
        /\ daily_totals' = daily_totals
        /\ model_frames' = model_frames
        /\ SubSeq(rendered', 1, Len(rendered)) = rendered
        /\ (requests' # requests /\ hist' = hist =>
              /\ Len(messages') = Len(messages) + 1
              /\ messages'[Len(messages')].level = "warning"
              /\ messages'[Len(messages')].text = "Historical fetch failed")
        /\ (requests' = requests \/ hist' # hist => messages' = messages)

\* C9: C9_State holds in every state and every step satisfies C9_Step
C9_HistoryIndependent == []C9_State /\ [][C9_Step]_vars

\* the historical fetch failed; the forecast is rendered and complete
C9_Witness ==
    /\ pc = "done"
    /\ HistWarnings # {}
    /\ ~hist.fetched
    /\ Len(out) = 2
    /\ Len(daily_totals) = 2
    /\ rendered = <<"forecast_chart", "daily_table", "daily_chart", "live_cams">>

HistWidgets == {"hist_table", "hist_chart"}

\* C10: the archive request is issued only in runs in which history display
\* is on and some forecast model produced a frame; in the total-failure
\* state no archive request was issued and no historical widget rendered.
C10_NoHistoryAfterStop ==
    /\ (ArchiveRequests # {} => show_history /\ model_frames # <<>> /\ ~AllModelsFailed)
    /\ (pc = "stopped" =>
          /\ ArchiveRequests = {}
          /\ ~hist.fetched
          /\ HistWarnings = {}
          /\ RenderedSet \cap HistWidgets = {})
    /\ (RenderedSet \cap HistWidgets # {} => ArchiveRequests # {})

\* every model failed with history display on
C10_Witness ==
    /\ pc = "stopped"
    /\ show_history
    /\ AllModelsFailed
    /\ requests = <<[api |-> "forecast", model |-> DEFAULT_MODELS[1]],
                    [api |-> "forecast", model |-> DEFAULT_MODELS[2]]>>

\* the ratio the table gives for temperature t (a number)
TableRatio(t) ==
    CASE t.n <= -12 * t.d -> 22
      [] -12 * t.d < t.n /\ t.n <= -6 * t.d -> 18
      [] -6 * t.d < t.n /\ t.n <= -2 * t.d -> 14
      [] -2 * t.d < t.n /\ t.n <= 0 -> 10
      [] t.n > 0 -> 7

\* C3: for every temperature, slr_from_temp is the step function of the
\* table, each threshold itself taking the colder ratio, and of two
\* temperatures the warmer never gets the higher ratio.
C3_SlrStep ==
    pc = "slr_done" =>
        /\ (~probe.t1.nan => probe.r1 = Rat(TableRatio(probe.t1), 1))
        /\ (~probe.t2.nan => probe.r2 = Rat(TableRatio(probe.t2), 1))
        /\ (~probe.t1.nan /\ ~probe.t2.nan /\ probe.t1.n * probe.t2.d <= probe.t2.n * probe.t1.d
              => probe.r2.n * probe.r1.d <= probe.r1.n * probe.r2.d)

\* -12.0 gives 22.0 and -11.999 gives 18.0
C3_Witness ==
    /\ pc = "slr_done"
    /\ probe.t1 = Rat(-12, 1)
    /\ probe.r1 = Rat(22, 1)
    /\ probe.t2 = Rat(-11999, 1000)
    /\ probe.r2 = Rat(18, 1)

====
